---- MODULE Spec2Model ----
(***************************************************************************)
(* A model of the contact-sheet mail tool: the e-mail validator, the       *)
(* column detector and the CSV/TSV extraction pipeline of                  *)
(* src/lib/csvParser.ts.                                                   *)
(*                                                                         *)
(* A JavaScript string is modelled as a sequence of one-character strings, *)
(* so that trim(), toLowerCase(), includes() and the regular expression    *)
(* are computed character by character.                                    *)
(***************************************************************************)
EXTENDS Integers, Sequences, FiniteSets, TLC

VARIABLES
    email,      \* validator: the string handed to isValidEmail
    verdict,    \* validator: "pending", or what isValidEmail returned
    headers,    \* results.meta.fields: the ordered column names
    data,       \* results.data: the ordered rows, each a map name -> cell
    options,    \* the options object of the running call (fields may be unset)
    call,       \* "idle", or the operation that ran
    result,     \* what the operation produced
    template,   \* template engine: the template handed to applyTemplate
    values,     \* template engine: the values object (fields may be unset)
    applied,    \* template engine: what applyTemplate returned
    hasWindow,  \* whether typeof window !== 'undefined' (a browser)
    localStorage, \* the item stored under SENT_STATUS_STORAGE_KEY
    home,       \* the state of the Home component
    pending,    \* the uploads whose decode has not completed
    history     \* what has been done so far, for stating the properties

vars == <<email, verdict, headers, data, options, call, result,
          template, values, applied, hasWindow, localStorage, home,
          pending, history>>

\* the variables of the template engine, of the sent store and of the page
templateVars == <<template, values, applied>>
storeVars == <<hasWindow, localStorage>>
homeVars == <<home, pending>>

----------------------------------------------------------------------------
(* Bounds of the model.                                                    *)

\* longest string handed to the validator
MaxStrLen == 6
\* most rows of a decoded table
MaxRows == 2

----------------------------------------------------------------------------
(* JavaScript strings.                                                     *)

\* Str("abc") = <<"a", "b", "c">>
Str(literal) == [i \in 1..Len(literal) |-> SubSeq(literal, i, i)]

\* null and undefined: a value that is no string
Null == <<"null">>

UpperLetters == <<"A","B","C","D","E","F","G","H","I","J","K","L","M",
                  "N","O","P","Q","R","S","T","U","V","W","X","Y","Z">>
LowerLetters == <<"a","b","c","d","e","f","g","h","i","j","k","l","m",
                  "n","o","p","q","r","s","t","u","v","w","x","y","z">>

\* the class \s of the regular expression, which is also what trim() strips
IsWhitespace(c) == c \in {" ", "\t", "\n", "\r"}

ToLowerChar(c) ==
    IF \E i \in 1..Len(UpperLetters) : UpperLetters[i] = c
    THEN LowerLetters[CHOOSE i \in 1..Len(UpperLetters) : UpperLetters[i] = c]
    ELSE c

\* String.prototype.toLowerCase
ToLowerCase(s) == [i \in 1..Len(s) |-> ToLowerChar(s[i])]

RECURSIVE TrimStart(_)
TrimStart(s) ==
    IF s # <<>> /\ IsWhitespace(Head(s)) THEN TrimStart(Tail(s)) ELSE s

RECURSIVE TrimEnd(_)
TrimEnd(s) ==
    IF s # <<>> /\ IsWhitespace(s[Len(s)])
    THEN TrimEnd(SubSeq(s, 1, Len(s) - 1))
    ELSE s

\* String.prototype.trim
Trim(s) == TrimEnd(TrimStart(s))

\* String.prototype.includes
Includes(s, sub) ==
    \E i \in 0..(Len(s) - Len(sub)) : SubSeq(s, i + 1, i + Len(sub)) = sub

\* JavaScript truthiness of a string or null: all but null and "" are truthy
Truthy(s) == s # Null /\ s # <<>>

----------------------------------------------------------------------------
(* The parts of the state a specification leaves alone.                    *)

TemplateIdle ==
    /\ template = [subject |-> <<>>, body |-> <<>>]
    /\ values = <<>>
    /\ applied = [kind |-> "none"]

StoreIdle ==
    /\ hasWindow = TRUE
    /\ localStorage = [kind |-> "absent"]

HomeIdle ==
    /\ home = [kind |-> "unmounted"]
    /\ pending = {}

HistoryIdle == history = [kind |-> "none"]

----------------------------------------------------------------------------
(* The validator.                                                          *)

\* the class [^\s@]
NotSpaceNotAt(c) == ~IsWhitespace(c) /\ c # "@"

\* [^\s@]+ matches s[i..j] whole
MatchesRun(s, i, j) == i <= j /\ \A k \in i..j : NotSpaceNotAt(s[k])

\* EMAIL_REGEX.test(s) for /^[^\s@]+@[^\s@]+\.[^\s@]+$/ : some '@' at position
\* at and some '.' at position dot split s into three non-empty runs.
EMAIL_REGEX(s) ==
    \E at \in 1..Len(s), dot \in 1..Len(s) :
        /\ s[at] = "@"
        /\ s[dot] = "."
        /\ at < dot
        /\ MatchesRun(s, 1, at - 1)
        /\ MatchesRun(s, at + 1, dot - 1)
        /\ MatchesRun(s, dot + 1, Len(s))

\* a validator that does not trim
isValidEmailNoTrim(e) == EMAIL_REGEX(e)

isValidEmail(e) == EMAIL_REGEX(Trim(e))

----------------------------------------------------------------------------
(* Rows.  A row is a JavaScript object: a function from the column names   *)
(* it holds to string cells.  A name outside its domain is an absent cell. *)

\* const rawValue = row[column];
\* const value = typeof rawValue === 'string' ? rawValue.trim() : '';
CellValue(row, column) ==
    IF column \in DOMAIN row THEN Trim(row[column]) ELSE <<>>

\* Object.values(row), in the order the decoder inserted the fields (the
\* header order; the model's column names are not array indices)
ObjectValues(row) ==
    LET present == SelectSeq(headers, LAMBDA h : h \in DOMAIN row)
    IN  [i \in 1..Len(present) |-> row[present[i]]]

----------------------------------------------------------------------------
(* The column detector.                                                    *)

ExactName == Str("E-mail 1 - Value")

countEmailLikeValues(column, rows) ==
    Cardinality({i \in 1..Len(rows) :
        LET value == CellValue(rows[i], column)
        IN  Truthy(value) /\ isValidEmail(value)})

\* Array.prototype.find: the first element of list among the positions
\* hits where the test holds, or undefined
Find(list, hits) ==
    IF hits = {} THEN Null
    ELSE list[CHOOSE i \in hits : \A j \in hits : i <= j]

IsEmailValueHeader(h) ==
    /\ Includes(ToLowerCase(h), Str("e-mail"))
    /\ Includes(ToLowerCase(h), Str("value"))

\* the tier-3 loop over headers[i..], carrying bestColumn and maxEmailCount
RECURSIVE ScoreLoop(_, _, _, _, _)
ScoreLoop(hs, rows, i, bestColumn, maxEmailCount) ==
    IF i > Len(hs) THEN [bestColumn |-> bestColumn, maxEmailCount |-> maxEmailCount]
    ELSE LET emailCount == countEmailLikeValues(hs[i], rows)
         IN  IF emailCount > maxEmailCount
             THEN ScoreLoop(hs, rows, i + 1, hs[i], emailCount)
             ELSE ScoreLoop(hs, rows, i + 1, bestColumn, maxEmailCount)

\* a detector that tries the "e-mail" and "value" names before the exact name
detectEmailColumnLooseFirst(hs, rows) ==
    LET exactMatch == Find(hs, {i \in DOMAIN hs : hs[i] = ExactName})
        emailValueMatch == Find(hs, {i \in DOMAIN hs : IsEmailValueHeader(hs[i])})
        best == ScoreLoop(hs, rows, 1, Null, 0)
    IN  IF Truthy(emailValueMatch) THEN emailValueMatch
        ELSE IF Truthy(exactMatch) THEN exactMatch
        ELSE IF Truthy(best.bestColumn) /\ best.maxEmailCount > 0
             THEN best.bestColumn
        ELSE Null

detectEmailColumn(hs, rows) ==
    LET exactMatch == Find(hs, {i \in DOMAIN hs : hs[i] = ExactName})
        emailValueMatch == Find(hs, {i \in DOMAIN hs : IsEmailValueHeader(hs[i])})
        best == ScoreLoop(hs, rows, 1, Null, 0)
    IN  IF Truthy(exactMatch) THEN exactMatch
        ELSE IF Truthy(emailValueMatch) THEN emailValueMatch
        ELSE IF Truthy(best.bestColumn) /\ best.maxEmailCount > 0
             THEN best.bestColumn
        ELSE Null

----------------------------------------------------------------------------
(* The extraction helpers.                                                 *)

RECURSIVE extractEmailsFromColumn(_, _)
extractEmailsFromColumn(column, rows) ==
    IF ~Truthy(column) \/ rows = <<>> THEN <<>>
    ELSE LET value == CellValue(Head(rows), column)
             here == IF Truthy(value) /\ isValidEmail(value)
                     THEN <<ToLowerCase(value)>> ELSE <<>>
         IN  here \o extractEmailsFromColumn(column, Tail(rows))

RECURSIVE extractRawValuesFromColumn(_, _)
extractRawValuesFromColumn(column, rows) ==
    IF ~Truthy(column) \/ rows = <<>> THEN <<>>
    ELSE LET value == CellValue(Head(rows), column)
             here == IF Truthy(value) THEN <<value>> ELSE <<>>
         IN  here \o extractRawValuesFromColumn(column, Tail(rows))

\* every cell of every row, row by row
RECURSIVE AllCells(_)
AllCells(rows) ==
    IF rows = <<>> THEN <<>>
    ELSE ObjectValues(Head(rows)) \o AllCells(Tail(rows))

\* the fallback's loop over the cells, carrying emails (seen is its range)
RECURSIVE ScanCells(_, _)
ScanCells(cells, emails) ==
    IF cells = <<>> THEN emails
    ELSE LET trimmed == Trim(Head(cells))
             lower == ToLowerCase(trimmed)
             seen == {emails[k] : k \in 1..Len(emails)}
         IN  IF Truthy(trimmed) /\ isValidEmail(trimmed) /\ lower \notin seen
             THEN ScanCells(Tail(cells), Append(emails, lower))
             ELSE ScanCells(Tail(cells), emails)

\* a fallback that keeps every valid cell, repeats included
extractEmailsFromAllCellsKeepRepeats(rows) ==
    LET cells == AllCells(rows)
        valid == SelectSeq(cells, LAMBDA c : Truthy(Trim(c)) /\ isValidEmail(Trim(c)))
    IN  [i \in 1..Len(valid) |-> ToLowerCase(Trim(valid[i]))]

extractEmailsFromAllCells(rows) == ScanCells(AllCells(rows), <<>>)

----------------------------------------------------------------------------
(* The extraction pipeline.                                                *)

\* the loop's variables before the first raw value
LoopStart ==
    [seen |-> {}, processed |-> <<>>, validCount |-> 0, invalidCount |-> 0,
     duplicatesCount |-> 0, emptyCount |-> 0]

Push(acc, trimmed) ==
    [acc EXCEPT !.seen = @ \cup {trimmed},
                !.processed = Append(@, trimmed),
                !.validCount = @ + 1]

\* the body of `for (const rawValue of rawValues)` after its first line;
\* removeDuplicates and removeInvalid are the truth values the conditions see
Classify(acc, trimmed, removeDuplicates, removeInvalid) ==
    IF ~Truthy(trimmed)
    THEN [acc EXCEPT !.emptyCount = @ + 1]
    ELSE IF ~isValidEmail(trimmed)
    THEN LET counted == [acc EXCEPT !.invalidCount = @ + 1]
         IN  IF ~removeInvalid
             THEN IF ~removeDuplicates \/ trimmed \notin counted.seen
                  THEN Push(counted, trimmed)
                  ELSE [counted EXCEPT !.duplicatesCount = @ + 1]
             ELSE counted
    ELSE IF removeDuplicates /\ trimmed \in acc.seen
    THEN [acc EXCEPT !.duplicatesCount = @ + 1]
    ELSE Push(acc, trimmed)

\* a loop body that compares and lists the values in their own letter case
LoopBodyCaseSensitive(acc, rawValue, removeDuplicates, removeInvalid) ==
    Classify(acc, Trim(rawValue), removeDuplicates, removeInvalid)

\* a loop body that drops invalid values whatever removeInvalid says
LoopBodyDropInvalid(acc, rawValue, removeDuplicates, removeInvalid) ==
    Classify(acc, ToLowerCase(Trim(rawValue)), removeDuplicates, TRUE)

\* const trimmed = rawValue.trim().toLowerCase(); and the rest of the body
LoopBody(acc, rawValue, removeDuplicates, removeInvalid) ==
    Classify(acc, ToLowerCase(Trim(rawValue)), removeDuplicates, removeInvalid)

RECURSIVE Loop(_, _, _, _)
Loop(acc, rawValues, removeDuplicates, removeInvalid) ==
    IF rawValues = <<>> THEN acc
    ELSE Loop(LoopBody(acc, Head(rawValues), removeDuplicates, removeInvalid),
              Tail(rawValues), removeDuplicates, removeInvalid)

\* const { removeDuplicates = true, removeInvalid = true } = options;
WithDefault(opts, field) ==
    IF field \in DOMAIN opts THEN opts[field] ELSE TRUE

\* options.removeDuplicates, options.removeInvalid as a condition:
\* an unset field reads undefined, which is falsy
ReadField(opts, field) ==
    IF field \in DOMAIN opts THEN opts[field] ELSE FALSE

\* rawValues of either branch: the detected column's non-empty cells, or in
\* the fallback the e-mails found in all cells
RawValues(detectedColumn, rows) ==
    IF Truthy(detectedColumn)
    THEN extractRawValuesFromColumn(detectedColumn, rows)
    ELSE extractEmailsFromAllCells(rows)

\* a result whose total is taken after the loop instead of before it
ResolvedTotalAfter(detectedColumn, rawValues, end) ==
    [kind |-> "resolved",
     emails |-> end.processed,
     detectedColumn |-> detectedColumn,
     stats |-> [total |-> Len(end.processed),
                valid |-> Len(end.processed),
                invalid |-> end.invalidCount,
                duplicates |-> end.duplicatesCount,
                empty |-> end.emptyCount]]

Resolved(detectedColumn, rawValues, end) ==
    [kind |-> "resolved",
     emails |-> end.processed,
     detectedColumn |-> detectedColumn,
     stats |-> [total |-> Len(rawValues),
                valid |-> Len(end.processed),
                invalid |-> end.invalidCount,
                duplicates |-> end.duplicatesCount,
                empty |-> end.emptyCount]]

\* new Error('CSVファイルが空です'), new Error('TSVファイルが空です')
CSVEmptyError == "CSV file is empty"
TSVEmptyError == "TSV file is empty"

\* a CSV variant without the empty-file check
parseCSVNeverRejects(hs, rows, opts) ==
    LET detectedColumn == detectEmailColumn(hs, rows)
        rawValues == RawValues(detectedColumn, rows)
    IN  Resolved(detectedColumn, rawValues,
                 Loop(LoopStart, rawValues,
                      WithDefault(opts, "removeDuplicates"),
                      WithDefault(opts, "removeInvalid")))

\* the complete callback of parseCSVAndExtractEmails
parseCSVAndExtractEmails(hs, rows, opts) ==
    LET removeDuplicates == WithDefault(opts, "removeDuplicates")
        removeInvalid == WithDefault(opts, "removeInvalid")
        detectedColumn == detectEmailColumn(hs, rows)
        rawValues == RawValues(detectedColumn, rows)
    IN  IF Len(rows) = 0
        THEN [kind |-> "rejected", message |-> CSVEmptyError]
        ELSE Resolved(detectedColumn, rawValues,
                      Loop(LoopStart, rawValues, removeDuplicates, removeInvalid))

\* the complete callback of parseTSVAndExtractEmails
parseTSVAndExtractEmails(hs, rows, opts) ==
    LET detectedColumn == detectEmailColumn(hs, rows)
        rawValues == RawValues(detectedColumn, rows)
    IN  IF Len(rows) = 0
        THEN [kind |-> "rejected", message |-> TSVEmptyError]
        ELSE Resolved(detectedColumn, rawValues,
                      Loop(LoopStart, rawValues,
                           ReadField(opts, "removeDuplicates"),
                           ReadField(opts, "removeInvalid")))

----------------------------------------------------------------------------
(* Decoded tables.                                                         *)

\* a cell the row does not hold
Absent == <<"absent">>

\* the rows over the column names hs with cells drawn from pool
RowsOver(hs, pool) ==
    LET names == {hs[i] : i \in 1..Len(hs)}
    IN  {[h \in {n \in names : f[n] # Absent} |-> f[h]] :
            f \in [names -> pool \cup {Absent}]}

TablesOver(hs, pool) == UNION {[1..n -> RowsOver(hs, pool)] : n \in 0..MaxRows}

\* the option objects a caller can pass: each field true, false or unset
OptionFields == {"removeDuplicates", "removeInvalid"}
Options == UNION {[fields -> BOOLEAN] : fields \in SUBSET OptionFields}

ValidatorIdle ==
    /\ email = <<>>
    /\ verdict = "pending"
    /\ TemplateIdle
    /\ StoreIdle
    /\ HomeIdle
    /\ HistoryIdle

----------------------------------------------------------------------------
(* The detector on its own: many header lists, few cell values.            *)

DetectNames ==
    {ExactName, Str("E-mail 2 - Value"), Str("E-mail"), Str("Name"), Str("")}

ScoredNames == {Str("E-mail"), Str("Name"), Str("")}

\* lists of unique names: up to two of any, and three of the scored names
DetectHeaderLists ==
    {<<>>} \cup {<<a>> : a \in DetectNames}
    \cup {hs \in [1..Cardinality(BOOLEAN) -> DetectNames] : hs[1] # hs[Len(hs)]}
    \cup {hs \in [1..Cardinality(ScoredNames) -> ScoredNames] :
              \A i, j \in DOMAIN hs : i # j => hs[i] # hs[j]}

DetectCells == {Str("a@b.c"), Str("bad")}

InitDetect ==
    /\ ValidatorIdle
    /\ headers \in DetectHeaderLists
    /\ data \in TablesOver(headers, DetectCells)
    /\ options = <<>>
    /\ call = "idle"
    /\ result = [kind |-> "none"]

Detect ==
    /\ call = "idle"
    /\ call' = "detect"
    /\ result' = [kind |-> "detected",
                  column |-> detectEmailColumn(headers, data)]
    /\ UNCHANGED <<email, verdict, headers, data, options>>
    /\ UNCHANGED <<templateVars, storeVars, homeVars, history>>

NextDetect == Detect

SpecDetect == InitDetect /\ [][NextDetect]_vars

----------------------------------------------------------------------------
(* The pipeline: a decoded table, then one call of either variant.         *)

HeaderLists ==
    {<<>>, <<Str("Contact")>>, <<ExactName>>, <<Str(""), Str("Name")>>}

\* cells of a one-column table
Cells ==
    {Str(" "), Str("a@b.c"), Str(" A@b.c"), Str("d@e.f"), Str("bad"), Str("Bad ")}

\* cells of a wider table
FewCells == {Str("a@b.c"), Str(" A@b.c"), Str("d@e.f"), Str("bad")}

CellsFor(hs) == IF Len(hs) > 1 THEN FewCells ELSE Cells

Init ==
    /\ ValidatorIdle
    /\ headers \in HeaderLists
    /\ data \in TablesOver(headers, CellsFor(headers))
    /\ options = <<>>
    /\ call = "idle"
    /\ result = [kind |-> "none"]

ParseCSV ==
    /\ call = "idle"
    /\ \E opts \in Options :
          /\ options' = opts
          /\ result' = parseCSVAndExtractEmails(headers, data, opts)
    /\ call' = "csv"
    /\ UNCHANGED <<email, verdict, headers, data>>
    /\ UNCHANGED <<templateVars, storeVars, homeVars, history>>

ParseTSV ==
    /\ call = "idle"
    /\ \E opts \in Options :
          /\ options' = opts
          /\ result' = parseTSVAndExtractEmails(headers, data, opts)
    /\ call' = "tsv"
    /\ UNCHANGED <<email, verdict, headers, data>>
    /\ UNCHANGED <<templateVars, storeVars, homeVars, history>>

Next == ParseCSV \/ ParseTSV

Spec == Init /\ [][Next]_vars

----------------------------------------------------------------------------
(* The validator on its own: every string over a small alphabet.           *)

Alphabet == {" ", "\t", "@", ".", "a"}

Strings(n) == UNION {[1..k -> Alphabet] : k \in 0..n}

TableIdle ==
    /\ headers = <<>>
    /\ data = <<>>
    /\ options = <<>>
    /\ call = "idle"
    /\ result = [kind |-> "none"]

InitValidator ==
    /\ email \in Strings(MaxStrLen)
    /\ verdict = "pending"
    /\ TableIdle
    /\ TemplateIdle
    /\ StoreIdle
    /\ HomeIdle
    /\ HistoryIdle

Validate ==
    /\ verdict = "pending"
    /\ verdict' = IF isValidEmail(email) THEN "true" ELSE "false"
    /\ UNCHANGED <<email, headers, data, options, call, result>>
    /\ UNCHANGED <<templateVars, storeVars, homeVars, history>>

NextValidator == Validate

SpecValidator == InitValidator /\ [][NextValidator]_vars

\* The shape the validator is documented to accept, read off the string:
\* no whitespace, exactly one '@' that is not first, and after it a '.'
\* with a character on each side.
EmailShape(t) ==
    /\ \A i \in 1..Len(t) : ~IsWhitespace(t[i])
    /\ Cardinality({i \in 1..Len(t) : t[i] = "@"}) = 1
    /\ \E a \in 2..Len(t) :
          /\ t[a] = "@"
          /\ \E d \in (a + 2)..(Len(t) - 1) : t[d] = "."

\* C10: isValidEmail(s) is true exactly when trim(s) has the documented
\* shape; it agrees with isValidEmail(trim(s)); and isValidEmail("") is false.
C10_ValidatorShape ==
    verdict # "pending" =>
        /\ (verdict = "true") <=> EmailShape(Trim(email))
        /\ (verdict = "true") <=> isValidEmail(Trim(email))
        /\ email = <<>> => verdict = "false"

\* a valid address wrapped in whitespace has been accepted
C10_Witness ==
    /\ verdict = "true"
    /\ email = Str(" a@a.a")

----------------------------------------------------------------------------
(* What the claims speak of, read off the table and the result.            *)

Range(seq) == {seq[i] : i \in DOMAIN seq}

Occurrences(seq, v) == Cardinality({i \in DOMAIN seq : seq[i] = v})

\* a call of either variant has completed
Parsed == call \in {"csv", "tsv"}

\* ... and resolved with an extraction result
Resolves == Parsed /\ result.kind = "resolved"

\* ... and a column was detected
ResolvesWithColumn == Resolves /\ result.detectedColumn # Null

\* the caller passed the option with this value
Passed(field, v) == field \in DOMAIN options /\ options[field] = v

\* the text of row r's cell in column col ("" when the cell is absent)
CellText(r, col) == IF col \in DOMAIN data[r] THEN data[r][col] ELSE <<>>

\* the trimmed, lowercased form of a text
Normal(text) == ToLowerCase(Trim(text))

\* the rows whose cell in column col is not empty after trimming
Filled(col) == {r \in 1..Len(data) : Trim(CellText(r, col)) # <<>>}

\* the rows of column col whose normal form is v
RowsOf(col, v) == {r \in Filled(col) : Normal(CellText(r, col)) = v}

\* the first row of column col whose normal form is v
FirstRow(col, v) ==
    CHOOSE r \in RowsOf(col, v) : \A q \in RowsOf(col, v) : r <= q

----------------------------------------------------------------------------
(* Claims about the pipeline, under Spec.                                  *)

C5_KeepInvalid ==
    (ResolvesWithColumn /\ Passed("removeInvalid", FALSE)) =>
        LET col == result.detectedColumn
            emails == result.emails
            failing == {r \in Filled(col) : ~isValidEmail(CellText(r, col))}
        IN  /\ result.stats.invalid = Cardinality(failing)
            /\ result.stats.valid = Len(emails)
            /\ \A r \in failing :
                  LET v == Normal(CellText(r, col))
                  IN  /\ v \in Range(emails)
                      /\ Passed("removeDuplicates", TRUE)
                            => Occurrences(emails, v) = 1
                      /\ Passed("removeDuplicates", FALSE)
                            => Occurrences(emails, v) = Cardinality(RowsOf(col, v))

\* an invalid value was kept once and its repeat suppressed as a duplicate
C5_Witness ==
    /\ ResolvesWithColumn
    /\ Passed("removeInvalid", FALSE)
    /\ Passed("removeDuplicates", TRUE)
    /\ \E r, q \in 1..Len(data) :
          /\ r < q
          /\ CellText(r, result.detectedColumn) = Str("bad")
          /\ CellText(q, result.detectedColumn) = Str("Bad ")
    /\ result.emails = <<Str("bad")>>
    /\ result.stats.invalid = 2
    /\ result.stats.valid = 1

\* C4: whenever the detector returns none for a table with at least one
\* row, the call resolves with detectedColumn = null, emails = the
\* lowercased valid-email cells in row-then-column order with repeats
\* removed (first kept), total = valid = emails.length, invalid = 0 and
\* duplicates = 0, whatever the options; no other cell is listed.
CellPlaces ==
    {p \in (1..Len(data)) \X (1..Len(headers)) : headers[p[2]] \in DOMAIN data[p[1]]}

PlaceText(p) == data[p[1]][headers[p[2]]]

Before(p, q) == p[1] < q[1] \/ (p[1] = q[1] /\ p[2] < q[2])

\* the places of the valid cells that repeat no earlier valid cell
FirstValidPlaces ==
    {p \in CellPlaces :
        /\ EmailShape(Trim(PlaceText(p)))
        /\ \A q \in CellPlaces :
              Before(q, p) => Normal(PlaceText(q)) # Normal(PlaceText(p))}

C6_EmptyCounted ==
    ResolvesWithColumn =>
        /\ result.stats.total = Cardinality(Filled(result.detectedColumn))
        /\ result.stats.empty =
              Len(data) - Cardinality(Filled(result.detectedColumn))

\* C7 (as claimed): stats.valid = emails.length and
\* valid + invalid + duplicates <= total, for every table and options.
C7_CountedOnce ==
    Resolves =>
        /\ result.stats.valid = Len(result.emails)
        /\ result.stats.valid + result.stats.invalid + result.stats.duplicates
              <= result.stats.total

\* C7 (amended): stats.valid = emails.length, valid + duplicates <= total
\* and invalid <= total for every table and options, and
\* valid + invalid + duplicates <= total whenever removeInvalid=true is
\* passed.
C7_StatsAccount ==
    Resolves =>
        /\ result.stats.valid = Len(result.emails)
        /\ result.stats.valid + result.stats.duplicates <= result.stats.total
        /\ result.stats.invalid <= result.stats.total
        /\ Passed("removeInvalid", TRUE) =>
              result.stats.valid + result.stats.invalid + result.stats.duplicates
                  <= result.stats.total

\* with removeInvalid=true a column of a valid address, its repeat and an
\* invalid value was accounted for: one valid, one duplicate, one invalid
C7_Witness ==
    /\ ResolvesWithColumn
    /\ Passed("removeInvalid", TRUE)
    /\ Passed("removeDuplicates", TRUE)
    /\ result.stats.duplicates = 1
    /\ result.stats.valid = 1
    /\ result.stats.total = 2

\* C8: a call rejects, with the empty-file error, exactly when the table
\* has zero rows; with one row or more it resolves with a result.
C8_RejectsOnlyEmpty ==
    Parsed =>
        /\ result.kind \in {"rejected", "resolved"}
        /\ result.kind = "rejected" <=> Len(data) = 0
        /\ result.kind = "rejected" =>
              result.message = IF call = "csv" THEN CSVEmptyError ELSE TSVEmptyError

\* a table of rows without any column resolved with no address
C8_Witness ==
    /\ Resolves
    /\ headers = <<>>
    /\ Len(data) >= 1
    /\ result.emails = <<>>

\* C9 (as claimed): a call with a field of options left unset returns what
\* the same call returns with that field set to true, and both variants
\* return the same result for the same table and options.
FilledIn(opts) ==
    [field \in OptionFields |->
        IF field \in DOMAIN opts THEN opts[field] ELSE TRUE]

C9_DefaultsTrue ==
    Resolves =>
        /\ call = "csv" =>
              result = parseCSVAndExtractEmails(headers, data, FilledIn(options))
        /\ call = "tsv" =>
              result = parseTSVAndExtractEmails(headers, data, FilledIn(options))
        /\ parseCSVAndExtractEmails(headers, data, options)
              = parseTSVAndExtractEmails(headers, data, options)

----------------------------------------------------------------------------
(* Claims about the column detector, under SpecDetect.                     *)

Detected == call = "detect"

\* how many cells of column h are valid e-mails
Score(h) ==
    Cardinality({r \in 1..Len(data) :
        h \in DOMAIN data[r] /\ EmailShape(Trim(data[r][h]))})

\* the highest score of any header (0 when there is none)
Highest ==
    IF headers = <<>> THEN 0
    ELSE CHOOSE m \in {Score(headers[i]) : i \in DOMAIN headers} :
            \A i \in DOMAIN headers : Score(headers[i]) <= m

\* the earliest header with the highest score
FirstHighest ==
    headers[CHOOSE i \in DOMAIN headers :
               /\ Score(headers[i]) = Highest
               /\ \A j \in 1..(i - 1) : Score(headers[j]) < Highest]

\* no header is the exact name or holds both "e-mail" and "value"
NoNamedColumn ==
    \A i \in DOMAIN headers :
        /\ headers[i] # ExactName
        /\ ~(Includes(ToLowerCase(headers[i]), Str("e-mail"))
             /\ Includes(ToLowerCase(headers[i]), Str("value")))

\* C2: whenever the header list holds the exact name "E-mail 1 - Value",
\* detectEmailColumn returns it, whatever the cells and the other headers.
C2_ExactNameWins ==
    (Detected /\ ExactName \in Range(headers)) => result.column = ExactName

\* the exact name won although it came second, after a header with
\* "e-mail" and "value" that holds more valid e-mails than it
C2_Witness ==
    /\ Detected
    /\ headers = <<Str("E-mail 2 - Value"), ExactName>>
    /\ Score(ExactName) = 0
    /\ Score(Str("E-mail 2 - Value")) = 2
    /\ result.column = ExactName

\* C3 (as claimed): with no named column, detectEmailColumn returns the
\* earliest header with the highest count of valid e-mails whenever that
\* count is at least 1, the empty name included, and none exactly when
\* every count is zero.
C3_HighestCountWins ==
    (Detected /\ NoNamedColumn) =>
        /\ Highest >= 1 => result.column = FirstHighest
        /\ result.column = Null <=> Highest = 0

----------------------------------------------------------------------------
(* The template engine of src/lib/template.ts.                             *)

EmailToken == Str("{{email}}")
NameToken == Str("{{name}}")

\* the regular expression of a token matches s at position i
MatchAt(s, i, token) ==
    /\ i + Len(token) - 1 <= Len(s)
    /\ SubSeq(s, i, i + Len(token) - 1) = token

\* the text a replacement string stands for, from its position j on, for a
\* match of token at position pos of s: $$ is a dollar sign, $& the matched
\* text, $` the text before the match, $' the text after it; any other
\* character, a lone dollar sign included, stands for itself (the
\* expressions have no capture group)
RECURSIVE GetSubstitution(_, _, _, _, _)
GetSubstitution(replacement, j, s, pos, token) ==
    IF j > Len(replacement) THEN <<>>
    ELSE IF replacement[j] = "$" /\ j < Len(replacement)
              /\ replacement[j + 1] \in {"$", "&", "`", "'"}
    THEN (CASE replacement[j + 1] = "$" -> <<"$">>
            [] replacement[j + 1] = "&" -> token
            [] replacement[j + 1] = "`" -> SubSeq(s, 1, pos - 1)
            [] replacement[j + 1] = "'" -> SubSeq(s, pos + Len(token), Len(s)))
         \o GetSubstitution(replacement, j + 2, s, pos, token)
    ELSE <<replacement[j]>> \o GetSubstitution(replacement, j + 1, s, pos, token)

\* s.replace(/token/g, replacement), from position i of s on
RECURSIVE ReplaceFrom(_, _, _, _)
ReplaceFrom(s, i, token, replacement) ==
    IF i > Len(s) THEN <<>>
    ELSE IF MatchAt(s, i, token)
    THEN GetSubstitution(replacement, 1, s, i, token)
         \o ReplaceFrom(s, i + Len(token), token, replacement)
    ELSE <<s[i]>> \o ReplaceFrom(s, i + 1, token, replacement)

\* String.prototype.replace with a global regular expression of one token
Replace(s, token, replacement) == ReplaceFrom(s, 1, token, replacement)

\* values.email, values.name: undefined when the field is unset
ValueOf(vals, field) == IF field \in DOMAIN vals THEN vals[field] ELSE Null

applyTemplate(tpl, vals) ==
    LET valuesEmail == ValueOf(vals, "email")
        subject1 == IF Truthy(valuesEmail)
                    THEN Replace(tpl.subject, EmailToken, valuesEmail)
                    ELSE tpl.subject
        body1 == IF Truthy(valuesEmail)
                 THEN Replace(tpl.body, EmailToken, valuesEmail)
                 ELSE tpl.body
        name == IF Truthy(ValueOf(vals, "name")) THEN ValueOf(vals, "name") ELSE <<>>
    IN  [subject |-> Replace(subject1, NameToken, name),
         body |-> Replace(body1, NameToken, name)]

----------------------------------------------------------------------------
(* The template engine on its own: templates put together from pieces.     *)

\* most pieces of a subject
MaxPieces == 2

TemplatePieces ==
    {EmailToken, NameToken, Str("{{"), Str("}}"), Str("name"), Str("Hi ")}

RECURSIVE Concat(_)
Concat(pieces) ==
    IF pieces = <<>> THEN <<>> ELSE Head(pieces) \o Concat(Tail(pieces))

SubjectTexts ==
    {Concat(ps) : ps \in UNION {[1..k -> TemplatePieces] : k \in 0..MaxPieces}}

BodyTexts == {Str(""), Str("To {{email}}"), Str("Dear {{name}},")}

EmailValues ==
    {Str(""), Str("a@b.c"), Str("{{name}}@b.c"), Str("$&@b.c"), Str("name")}

NameValues == {Str(""), Str("Al"), Str("{{email}}"), Str("$$")}

\* the values objects: each field a string or unset
ValuesObjects ==
    {[field \in {f \in {"email", "name"} : v[f] # Null} |-> v[field]] :
        v \in [email : EmailValues \cup {Null}, name : NameValues \cup {Null}]}

InitTemplate ==
    /\ email = <<>>
    /\ verdict = "pending"
    /\ TableIdle
    /\ StoreIdle
    /\ HomeIdle
    /\ HistoryIdle
    /\ template \in [subject : SubjectTexts, body : BodyTexts]
    /\ values \in ValuesObjects
    /\ applied = [kind |-> "none"]

ApplyTemplate ==
    /\ applied.kind = "none"
    /\ applied' = [kind |-> "returned", template |-> applyTemplate(template, values)]
    /\ UNCHANGED <<template, values>>
    /\ UNCHANGED <<email, verdict, headers, data, options, call, result>>
    /\ UNCHANGED <<storeVars, homeVars, history>>

NextTemplate == ApplyTemplate

SpecTemplate == InitTemplate /\ [][NextTemplate]_vars

\* The substitution as documented, read off the template in one pass: at a
\* {{email}} token the e-mail when there is one (an empty e-mail counts as
\* none), at a {{name}} token the name or nothing, any other character as
\* it stands.
RECURSIVE Substituted(_, _, _)
Substituted(s, i, vals) ==
    IF i > Len(s) THEN <<>>
    ELSE IF MatchAt(s, i, EmailToken) /\ "email" \in DOMAIN vals
            /\ vals["email"] # <<>>
    THEN vals["email"] \o Substituted(s, i + Len(EmailToken), vals)
    ELSE IF MatchAt(s, i, NameToken)
    THEN (IF "name" \in DOMAIN vals THEN vals["name"] ELSE <<>>)
         \o Substituted(s, i + Len(NameToken), vals)
    ELSE <<s[i]>> \o Substituted(s, i + 1, vals)

\* C11 (as claimed): applyTemplate returns the subject and the body with
\* every {{email}} token replaced by values.email when it is provided and
\* every {{name}} token by values.name or by nothing, the inserted text
\* left as it is.
C11_TokensReplaced ==
    applied.kind = "returned" =>
        /\ applied.template.subject = Substituted(template.subject, 1, values)
        /\ applied.template.body = Substituted(template.body, 1, values)

----------------------------------------------------------------------------
(* The sent store of src/lib/sentStatus.ts.                                *)
(*                                                                         *)
(* The stored item is absent, the empty text, or a text; a text is kept by *)
(* what JSON.parse makes of it: a syntax error, a value that is no array,  *)
(* or an array whose items are strings or something else.  JSON.stringify  *)
(* of an array of strings gives the text that parses to that array.        *)

\* an item of a parsed array that is no string
NotAString == <<"number">>

UnparseableText == [kind |-> "text", parsed |-> "SyntaxError", items |-> <<>>]
NotAnArrayText == [kind |-> "text", parsed |-> "other", items |-> <<>>]

\* JSON.stringify(list) for a list of strings
Stringify(list) == [kind |-> "text", parsed |-> "array", items |-> list]

\* new Set(list): the elements in the order of first insertion
RECURSIVE NewSet(_)
NewSet(list) ==
    IF list = <<>> THEN <<>>
    ELSE LET front == NewSet(SubSeq(list, 1, Len(list) - 1))
             last == list[Len(list)]
         IN  IF \E i \in DOMAIN front : front[i] = last
             THEN front ELSE Append(front, last)

SetHas(set, v) == \E i \in DOMAIN set : set[i] = v

SetAdd(set, v) == IF SetHas(set, v) THEN set ELSE Append(set, v)

SetDelete(set, v) == SelectSeq(set, LAMBDA x : x # v)

\* getSentEmails on the stored item: the empty set without a window, for
\* an absent or empty item, and whenever JSON.parse, .map or
\* .toLowerCase throws
SentEmailsOf(window, stored) ==
    IF window /\ stored.kind = "text" /\ stored.parsed = "array"
       /\ \A i \in DOMAIN stored.items : stored.items[i] # NotAString
    THEN NewSet([i \in DOMAIN stored.items |-> ToLowerCase(stored.items[i])])
    ELSE <<>>

getSentEmails == SentEmailsOf(hasWindow, localStorage)

\* the item markAsSent(address) leaves in the store
markAsSent(address) ==
    IF hasWindow
    THEN Stringify(SetAdd(getSentEmails, ToLowerCase(address)))
    ELSE localStorage

\* a markAsUnsent that deletes the address as it was given
markAsUnsentAsGiven(address) ==
    IF hasWindow
    THEN Stringify(SetDelete(getSentEmails, address))
    ELSE localStorage

\* the item markAsUnsent(address) leaves in the store
markAsUnsent(address) ==
    IF hasWindow
    THEN Stringify(SetDelete(getSentEmails, ToLowerCase(address)))
    ELSE localStorage

isSent(address) == SetHas(getSentEmails, ToLowerCase(address))

----------------------------------------------------------------------------
(* The sent store on its own: any stored item, then any calls.             *)

\* most items of the list stored at the start
MaxStored == 2

SentAddresses == {Str("a@b.c"), Str("A@B.c"), Str("d@e.f")}

LowerAddresses == {ToLowerCase(a) : a \in SentAddresses}

StoredItems ==
    {[kind |-> "absent"], [kind |-> "empty"], UnparseableText, NotAnArrayText}
    \cup {Stringify(list) :
            list \in UNION {[1..k -> SentAddresses \cup {NotAString}] : k \in 0..MaxStored}}

InitSent ==
    /\ email = <<>>
    /\ verdict = "pending"
    /\ TableIdle
    /\ TemplateIdle
    /\ HomeIdle
    /\ hasWindow \in BOOLEAN
    /\ localStorage \in IF hasWindow THEN StoredItems ELSE {[kind |-> "absent"]}
    /\ history = [kind |-> "calls", initial |-> localStorage, calls |-> 0,
                  last |-> [a \in LowerAddresses |-> "none"]]

MarkAsSent ==
    /\ history.kind = "calls"
    /\ \E address \in SentAddresses :
          /\ localStorage' = markAsSent(address)
          /\ history' = [history EXCEPT !.last[ToLowerCase(address)] = "sent",
                                        !.calls = 1]
    /\ UNCHANGED <<email, verdict, headers, data, options, call, result>>
    /\ UNCHANGED <<templateVars, hasWindow, homeVars>>

MarkAsUnsent ==
    /\ history.kind = "calls"
    /\ \E address \in SentAddresses :
          /\ localStorage' = markAsUnsent(address)
          /\ history' = [history EXCEPT !.last[ToLowerCase(address)] = "unsent",
                                        !.calls = 1]
    /\ UNCHANGED <<email, verdict, headers, data, options, call, result>>
    /\ UNCHANGED <<templateVars, hasWindow, homeVars>>

NextSent == MarkAsSent \/ MarkAsUnsent

SpecSent == InitSent /\ [][NextSent]_vars

\* the stored item at the start was a list of strings with an entry equal
\* to the address ignoring letter case
InitiallySent(address) ==
    /\ history.initial.kind = "text"
    /\ history.initial.parsed = "array"
    /\ \A i \in DOMAIN history.initial.items : history.initial.items[i] # NotAString
    /\ \E i \in DOMAIN history.initial.items :
          ToLowerCase(history.initial.items[i]) = ToLowerCase(address)

\* after a call the stored list holds lowercase strings without repeats
StoredListClean ==
    /\ localStorage.kind = "text"
    /\ localStorage.parsed = "array"
    /\ \A i \in DOMAIN localStorage.items :
          /\ localStorage.items[i] # NotAString
          /\ localStorage.items[i] = ToLowerCase(localStorage.items[i])
          /\ \A j \in DOMAIN localStorage.items :
                i # j => localStorage.items[i] # localStorage.items[j]

InBrowserAfterCalls == history.kind = "calls" /\ hasWindow /\ history.calls > 0

----------------------------------------------------------------------------
(* The page of src/unnamed/part_000: the Home component's state, its       *)
(* upload handler with the decodes in flight, paging and the sent toggle.  *)
(* A handler runs to its end, or to its await, before another one starts.  *)

\* useState(null) of stats
NoStats == [kind |-> "null"]

\* the state after the first render
Mounted ==
    [kind |-> "mounted",
     emails |-> <<>>,
     currentIndex |-> 0,
     detectedColumn |-> Null,
     stats |-> NoStats,
     removeDuplicates |-> TRUE,
     removeInvalid |-> TRUE,
     showUnsentOnly |-> FALSE]

\* String.prototype.endsWith
EndsWith(s, suffix) ==
    /\ Len(suffix) <= Len(s)
    /\ SubSeq(s, Len(s) - Len(suffix) + 1, Len(s)) = suffix

\* event.target.files?.[0] when the dialog was closed without a file
NoFile == [name |-> Null, headers |-> <<>>, data |-> <<>>]

IsTable(file) == EndsWith(file.name, Str(".tsv")) \/ EndsWith(file.name, Str(".csv"))

\* the promise handleFileUpload awaits, by the value it settles with
Decode(file, opts) ==
    IF EndsWith(file.name, Str(".tsv"))
    THEN parseTSVAndExtractEmails(file.headers, file.data, opts)
    ELSE parseCSVAndExtractEmails(file.headers, file.data, opts)

\* handleFileUpload after the await, without setCurrentIndex(0)
ShowResultKeepIndex(h, outcome) ==
    IF outcome.kind = "resolved"
    THEN [h EXCEPT !.emails = outcome.emails,
                   !.detectedColumn = outcome.detectedColumn,
                   !.stats = outcome.stats]
    ELSE h

\* handleFileUpload after the await: the four setters, or the alert of
\* the catch block
ShowResult(h, outcome) ==
    IF outcome.kind = "resolved"
    THEN [h EXCEPT !.emails = outcome.emails,
                   !.detectedColumn = outcome.detectedColumn,
                   !.stats = outcome.stats,
                   !.currentIndex = 0]
    ELSE h

Directions == {"next", "prev"}

\* the index the loop of findNextUnsent and the plain move go to
StepIndex(index, direction, length) ==
    IF direction = "next"
    THEN (index + 1) % length
    ELSE (index - 1 + length) % length

\* the while loop of findNextUnsent over the listed addresses; steps counts
\* the runs of the loop body
RECURSIVE FindLoop(_, _, _, _, _)
FindLoop(list, sent, index, direction, iterations) ==
    IF iterations < Len(list)
    THEN LET next == StepIndex(index, direction, Len(list))
         IN  IF ~SetHas(sent, ToLowerCase(list[next + 1]))
             THEN [kind |-> "index", index |-> next, steps |-> iterations + 1]
             ELSE FindLoop(list, sent, next, direction, iterations + 1)
    ELSE [kind |-> "null", index |-> index, steps |-> iterations]

findNextUnsent(startIndex, direction) ==
    FindLoop(home.emails, getSentEmails, startIndex, direction, 0)

\* the index goToPage(direction) sets
goToPage(direction) ==
    IF home.showUnsentOnly
    THEN LET nextIndex == findNextUnsent(home.currentIndex, direction)
         IN  IF nextIndex.kind # "null" THEN nextIndex.index ELSE home.currentIndex
    ELSE StepIndex(home.currentIndex, direction, Len(home.emails))

\* const currentEmail = emails[currentIndex] || ''
currentEmail ==
    IF home.currentIndex + 1 \in DOMAIN home.emails
    THEN home.emails[home.currentIndex + 1]
    ELSE <<>>

\* the item toggleSent(address) leaves in the store
toggleSent(address) ==
    IF isSent(address) THEN markAsUnsent(address) ELSE markAsSent(address)

----------------------------------------------------------------------------
(* A session on the page: files are chosen, their decodes complete in any  *)
(* order, the user pages, toggles the sent mark and flips the checkboxes.  *)

\* most uploads started in one session
MaxUploads == 2

Column == Str("Contact")

RowOf(text) == [c \in {Column} |-> text]

ListFile ==
    [name |-> Str("list.csv"), headers |-> <<Column>>,
     data |-> <<RowOf(Str("a@b.c")), RowOf(Str(" A@b.c")),
                RowOf(Str("d@e.f")), RowOf(Str("x@y.z"))>>]

OtherFile ==
    [name |-> Str("other.tsv"), headers |-> <<Column>>,
     data |-> <<RowOf(Str("bad"))>>]

EmptyFile == [name |-> Str("empty.csv"), headers |-> <<>>, data |-> <<>>]

NotesFile == [name |-> Str("notes.txt"), headers |-> <<>>, data |-> <<>>]

SessionFiles == {ListFile, OtherFile, EmptyFile, NotesFile, NoFile}

InitSession ==
    /\ email = <<>>
    /\ verdict = "pending"
    /\ TableIdle
    /\ TemplateIdle
    /\ hasWindow = TRUE
    /\ localStorage \in {[kind |-> "absent"], Stringify(<<Str("A@b.c")>>)}
    /\ home = Mounted
    /\ pending = {}
    /\ history = [kind |-> "session", selected |-> 0,
                  latest |-> [kind |-> "none"], move |-> [kind |-> "none"]]

NoMove == [history EXCEPT !.move = [kind |-> "none"]]

\* handleFileUpload up to its await
SelectFile ==
    /\ home.kind = "mounted"
    /\ \E file \in SessionFiles :
          IF file = NoFile \/ ~IsTable(file)
          THEN /\ pending' = pending
               /\ history' = NoMove
          ELSE LET outcome == Decode(file, [removeDuplicates |-> home.removeDuplicates,
                                            removeInvalid |-> home.removeInvalid])
                   id == history.selected + 1
               IN  /\ history.selected < MaxUploads
                   /\ pending' = pending \cup {[id |-> id, outcome |-> outcome]}
                   /\ history' = [NoMove EXCEPT
                                    !.selected = id,
                                    !.latest = IF outcome.kind = "resolved"
                                               THEN outcome ELSE @]
    /\ UNCHANGED <<email, verdict, headers, data, options, call, result>>
    /\ UNCHANGED <<templateVars, storeVars, home>>

\* handleFileUpload from its await on, for a decode that settled
CompleteUpload ==
    /\ \E upload \in pending :
          /\ pending' = pending \ {upload}
          /\ home' = ShowResult(home, upload.outcome)
    /\ history' = NoMove
    /\ UNCHANGED <<email, verdict, headers, data, options, call, result>>
    /\ UNCHANGED <<templateVars, storeVars>>

GoToPage ==
    /\ home.kind = "mounted"
    /\ Len(home.emails) # 0
    /\ \E direction \in Directions :
          /\ home' = [home EXCEPT !.currentIndex = goToPage(direction)]
          /\ history' = [history EXCEPT !.move =
                            [kind |-> "moved", direction |-> direction,
                             from |-> home.currentIndex]]
    /\ UNCHANGED <<email, verdict, headers, data, options, call, result>>
    /\ UNCHANGED <<templateVars, storeVars, pending>>

\* the checkbox of the page card, shown while the list is not empty
ToggleSent ==
    /\ home.kind = "mounted"
    /\ Len(home.emails) > 0
    /\ localStorage' = toggleSent(currentEmail)
    /\ history' = NoMove
    /\ UNCHANGED <<email, verdict, headers, data, options, call, result>>
    /\ UNCHANGED <<templateVars, hasWindow, homeVars>>

\* the three checkboxes of the settings card
SetOption ==
    /\ home.kind = "mounted"
    /\ \E field \in {"removeDuplicates", "removeInvalid", "showUnsentOnly"} :
          home' = [home EXCEPT ![field] = ~@]
    /\ history' = NoMove
    /\ UNCHANGED <<email, verdict, headers, data, options, call, result>>
    /\ UNCHANGED <<templateVars, storeVars, pending>>

NextSession ==
    \/ SelectFile
    \/ CompleteUpload
    \/ GoToPage
    \/ ToggleSent
    \/ SetOption

SpecSession == InitSession /\ [][NextSession]_vars

----------------------------------------------------------------------------
(* Paging (C13).                                                           *)

Length == Len(home.emails)

\* the stored list, when it is one, has an entry equal to the address
\* ignoring letter case
MarkedSent(address) ==
    /\ localStorage.kind = "text"
    /\ localStorage.parsed = "array"
    /\ \A i \in DOMAIN localStorage.items : localStorage.items[i] # NotAString
    /\ \E i \in DOMAIN localStorage.items :
          ToLowerCase(localStorage.items[i]) = ToLowerCase(address)

UnsentIndexes == {i \in 0..(Length - 1) : ~MarkedSent(home.emails[i + 1])}

\* how many positions away index is from start going in the direction
\* round the list; the start itself is a whole round away
Distance(start, index, direction) ==
    LET ahead == IF direction = "next"
                 THEN (index - start + Length) % Length
                 ELSE (start - index + Length) % Length
    IN  IF ahead = 0 THEN Length ELSE ahead

Nearest(start, direction) ==
    CHOOSE i \in UnsentIndexes :
        \A j \in UnsentIndexes :
            Distance(start, i, direction) <= Distance(start, j, direction)

\* where a move from start is to end
Destination(start, direction) ==
    IF home.showUnsentOnly
    THEN IF UnsentIndexes = {} THEN start ELSE Nearest(start, direction)
    ELSE CHOOSE i \in 0..(Length - 1) : Distance(start, i, direction) = 1

Moved == history.kind = "session" /\ history.move.kind = "moved"

\* C13: after any uploads, moves and sent toggles, a non-empty list has its
\* current index within 0..emails.length-1; a plain move steps by one with
\* wrap-around; in unsent-only mode a move goes to the nearest index in the
\* chosen direction, the current index tried last, whose address is not
\* marked sent, and stays where it is when every listed address is sent;
\* the search runs its loop at most emails.length times.
C13_Paging ==
    home.kind = "mounted" /\ Length > 0 =>
        /\ home.currentIndex \in 0..(Length - 1)
        /\ Moved => home.currentIndex =
                        Destination(history.move.from, history.move.direction)
        /\ \A direction \in Directions :
              findNextUnsent(home.currentIndex, direction).steps <= Length

\* an unsent-only move that passed over a sent address
C13_WitnessSkip ==
    /\ Moved
    /\ home.showUnsentOnly
    /\ Length >= 3
    /\ home.currentIndex # history.move.from
    /\ Distance(history.move.from, home.currentIndex, history.move.direction) > 1

\* an unsent-only move over a list whose addresses are all sent
C13_WitnessAllSent ==
    /\ Moved
    /\ home.showUnsentOnly
    /\ Length >= 3
    /\ UnsentIndexes = {}

\* a plain move that wrapped round the end of the list
C13_WitnessWrap ==
    /\ Moved
    /\ ~home.showUnsentOnly
    /\ Length >= 3
    /\ history.move.from = Length - 1
    /\ home.currentIndex = 0

C13_Witness == C13_WitnessSkip

----------------------------------------------------------------------------
(* Uploads in flight (C14).                                                *)

\* the page shows this extraction result, all three parts of it
Shows(outcome) ==
    /\ home.emails = outcome.emails
    /\ home.detectedColumn = outcome.detectedColumn
    /\ home.stats = outcome.stats

\* the results the files of the session can give
Extractions ==
    {outcome \in {Decode(file, opts) :
                     file \in {f \in SessionFiles : f # NoFile /\ IsTable(f)},
                     opts \in [OptionFields -> BOOLEAN]} :
        outcome.kind = "resolved"}

ShowsOneResult ==
    \/ Shows([emails |-> <<>>, detectedColumn |-> Null, stats |-> NoStats])
    \/ \E outcome \in Extractions : Shows(outcome)

\* every upload has completed and one of them had succeeded
AllSettled ==
    /\ history.kind = "session"
    /\ pending = {}
    /\ history.latest.kind = "resolved"

\* this step completes the upload
Completes(upload) == upload \in pending /\ pending' = pending \ {upload}

CompletionEffect ==
    \A upload \in pending :
        Completes(upload) =>
            IF upload.outcome.kind = "resolved"
            THEN home'.currentIndex = 0 /\ Shows(upload.outcome)'
            ELSE home' = home

\* C14: whatever the order the decodes complete in, emails, detectedColumn
\* and stats come from one single extraction result; a successful upload
\* sets the current index to 0; a failed or rejected one leaves emails,
\* detectedColumn, stats and the index as they were; and once every pending
\* upload has completed the page shows the result of the most recently
\* selected file that succeeded.
C14_LatestSelectedShown ==
    /\ [](home.kind = "mounted" => ShowsOneResult)
    /\ [][CompletionEffect]_vars
    /\ [](AllSettled => Shows(history.latest))

\* the parts of C14 other than the last
C14_Replaces ==
    /\ [](home.kind = "mounted" => ShowsOneResult)
    /\ [][CompletionEffect]_vars

====
